---- MODULE Spec2Model ----
(***************************************************************************)
(* Model of the Setup screen (src/src/components/BigButton.tsx, lines      *)
(* 50-291): the React state of the screen, its user handlers, the initial  *)
(* location fetch and the promise chain built by handleSignUp.             *)
(*                                                                         *)
(* JavaScript runs to completion.  A user event or the completion of a     *)
(* remote call is one task; the reactions of the promise chain that the    *)
(* completion makes runnable (catch / then / then / catch / finally) are   *)
(* microtasks and all run before the next task.  Each task is therefore    *)
(* one action: the action of a completion applies, in chain order, the     *)
(* reactions that the settled promise makes runnable.                      *)
(*                                                                         *)
(* navigation, the authentication context and the three services are       *)
(* capabilities the screen calls; the model records every call.  The       *)
(* screen's state keeps being modelled after navigation.replace.           *)
(***************************************************************************)
EXTENDS Integers, Sequences, FiniteSets, TLC

\* ---- bounds ----
MaxRuns == 2

\* ---- values ----
null == "<null>"
NotFoundMessage == "There is no such username on GitHub. Please try again."
GenericMessage == "Something went wrong. Please try again."

Usernames == {"", "octocat"}

\* Coordinates in thousandths of a degree.
DEFAULT_LOCATION == [latitude |-> 0, longitude |-> 0]
ElsewhereLocation == [latitude |-> 1, longitude |-> 2]
Coordinates == {DEFAULT_LOCATION, ElsewhereLocation}
\* latitudeDelta, longitudeDelta: 0.004
InitialDelta == 4
InitialRegion ==
    [latitude |-> DEFAULT_LOCATION.latitude, longitude |-> DEFAULT_LOCATION.longitude,
     latitudeDelta |-> InitialDelta, longitudeDelta |-> InitialDelta]

\* ---- rejection values ----
\* A value a promise is rejected with: a string, or an error object that is
\* or is not an AxiosError and carries response.status (0: no response).
NoReason == [type |-> "none", str |-> "", axios |-> FALSE, status |-> 0]
StringReason(s) == [type |-> "string", str |-> s, axios |-> FALSE, status |-> 0]
ErrorObject(a, s) == [type |-> "object", str |-> "", axios |-> a, status |-> s]
ErrorObjects ==
    {ErrorObject(TRUE, 404), ErrorObject(TRUE, 500), ErrorObject(FALSE, 404)}

Pending == [state |-> "pending", reason |-> NoReason]
Fulfilled == [state |-> "fulfilled", reason |-> NoReason]
Rejected(r) == [state |-> "rejected", reason |-> r]

\* Outcomes of the two remote services.
ServiceOutcomes == {Fulfilled} \cup {Rejected(e) : e \in ErrorObjects}

VARIABLES
    username, isAuthenticating, markerLocation, currentRegion, mapLocked,
    errorMessage,
    locationFetch,
    runs,
    authenticationContext,
    authValue, setValueCalls, replaceCalls,
    lastEvent

vars == <<username, isAuthenticating, markerLocation, currentRegion, mapLocked,
          errorMessage, locationFetch, runs, authenticationContext,
          authValue, setValueCalls, replaceCalls, lastEvent>>

screen == <<username, isAuthenticating, markerLocation, currentRegion, mapLocked,
            errorMessage>>
\* authenticationContext: what useContext(AuthenticationContext) gave, null
\* when no value is provided; authValue: the value of the authentication
\* context; setValueCalls, replaceCalls: calls of its setValue and of
\* navigation.replace('Main').
store == <<authenticationContext, authValue, setValueCalls, replaceCalls>>

\* ---- one invocation of handleSignUp ----
\* username, markerLocation: the values the closure of handleSignUp captured.
\* pc: "lookup" while getGitHubUserInfo is pending, "register" while postUser
\* is pending, "done" once the finally has run.  When the chain has run to
\* its end nothing refers to the closure any more: Released is what is left.
NewRun(u, m) == [pc |-> "lookup", username |-> u, markerLocation |-> m]
Released == [pc |-> "done", username |-> "", markerLocation |-> DEFAULT_LOCATION]
\* Once postUser has been called with the captured markerLocation, the rest
\* of the chain reads only the captured username.
Registering(r) ==
    [pc |-> "register", username |-> r.username,
     markerLocation |-> DEFAULT_LOCATION]

Started(i) == i \in 1..Len(runs)

\* ---- the task that ran last ----
\* op: the handler or completion; run, outcome: the invocation a completion
\* belongs to and how the remote call settled; text, coordinate: the
\* argument of the handler, or the coordinates handed to postUser; log: the
\* calls the task made, in order.
Event(op) ==
    [op |-> op, run |-> 0, outcome |-> Pending, text |-> "",
     coordinate |-> DEFAULT_LOCATION, log |-> <<>>]

\* useContext(AuthenticationContext): the provided context object, or null
\* when the screen is rendered without one
ProvidedContext == "<AuthenticationContext>"
ContextValues == {null, ProvidedContext}

Init ==
    /\ username = ""
    /\ isAuthenticating = FALSE
    /\ markerLocation = DEFAULT_LOCATION
    /\ currentRegion = InitialRegion
    /\ mapLocked = TRUE
    /\ errorMessage = null
    /\ locationFetch = "pending"
    /\ runs = <<>>
    /\ authenticationContext \in ContextValues
    /\ authValue = null
    /\ setValueCalls = 0
    /\ replaceCalls = 0
    /\ lastEvent = Event("mount")

\* ---- initial location fetch (useEffect) ----
\* locationFetch: "pending" until the promise of tryGetCurrentPosition has
\* settled, then "settled"; lastEvent tells how it settled.
\* variant: setCurrentRegion(curPos), the region loses its deltas
RegionAtPositionOnly(curPos) ==
    [latitude |-> curPos.latitude, longitude |-> curPos.longitude,
     latitudeDelta |-> 0, longitudeDelta |-> 0]

\* { ...currentRegion, ...curPos } with the currentRegion of the first render
RegionAt(curPos) ==
    [InitialRegion EXCEPT !.latitude = curPos.latitude,
                          !.longitude = curPos.longitude]

tryGetCurrentPositionResolves(curPos) ==
    /\ locationFetch = "pending"
    /\ locationFetch' = "settled"
    /\ markerLocation' = curPos
    /\ currentRegion' = RegionAt(curPos)
    /\ lastEvent' = [Event("tryGetCurrentPositionResolves") EXCEPT !.coordinate = curPos]
    /\ UNCHANGED <<username, isAuthenticating, mapLocked, errorMessage, runs>>
    /\ UNCHANGED store

\* variant: the failure of the location fetch is shown in the error banner
tryGetCurrentPositionRejectsSurfaced ==
    /\ locationFetch = "pending"
    /\ locationFetch' = "settled"
    /\ errorMessage' = GenericMessage
    /\ lastEvent' = Event("tryGetCurrentPositionRejects")
    /\ UNCHANGED <<username, isAuthenticating, markerLocation, currentRegion,
                   mapLocked, runs>>
    /\ UNCHANGED store

tryGetCurrentPositionRejects ==
    /\ locationFetch = "pending"
    /\ locationFetch' = "settled"
    /\ lastEvent' = Event("tryGetCurrentPositionRejects")
    /\ UNCHANGED <<screen, runs>>
    /\ UNCHANGED store

\* ---- user handlers ----
\* variant: a press also recentres the region on the pressed point
handleMapPressRecentres(coordinate) ==
    /\ markerLocation' = coordinate
    /\ currentRegion' = [currentRegion EXCEPT !.latitude = coordinate.latitude,
                                              !.longitude = coordinate.longitude]
    /\ lastEvent' = [Event("handleMapPress") EXCEPT !.coordinate = coordinate]
    /\ UNCHANGED <<username, isAuthenticating, mapLocked, errorMessage,
                   locationFetch, runs>>
    /\ UNCHANGED store

handleMapPress(coordinate) ==
    /\ markerLocation' = coordinate
    /\ lastEvent' = [Event("handleMapPress") EXCEPT !.coordinate = coordinate]
    /\ UNCHANGED <<username, isAuthenticating, currentRegion, mapLocked,
                   errorMessage, locationFetch, runs>>
    /\ UNCHANGED store

\* variant: an edit leaves the error banner in place
onChangeTextKeepsError(text) ==
    /\ username' = text
    /\ lastEvent' = [Event("onChangeText") EXCEPT !.text = text]
    /\ UNCHANGED <<isAuthenticating, markerLocation, currentRegion, mapLocked,
                   errorMessage, locationFetch, runs>>
    /\ UNCHANGED store

onChangeText(text) ==
    /\ username' = text
    /\ errorMessage' = null
    /\ lastEvent' = [Event("onChangeText") EXCEPT !.text = text]
    /\ UNCHANGED <<isAuthenticating, markerLocation, currentRegion, mapLocked,
                   locationFetch, runs>>
    /\ UNCHANGED store

\* The synchronous part of handleSignUp: setIsAuthenticating(true) and the
\* call of getGitHubUserInfo(username); the chain is attached to its promise.
handleSignUp ==
    /\ Len(runs) < MaxRuns
    /\ isAuthenticating' = TRUE
    /\ runs' = Append(runs, NewRun(username, markerLocation))
    /\ lastEvent' = [Event("handleSignUp") EXCEPT
                        !.run = Len(runs) + 1, !.text = username,
                        !.log = <<"setIsAuthenticating(true)", "getGitHubUserInfo">>]
    /\ UNCHANGED <<username, markerLocation, currentRegion, mapLocked,
                   errorMessage, locationFetch>>
    /\ UNCHANGED store

\* ---- the reactions of the promise chain ----
\* axios.isAxiosError(err) && err.response?.status == 404
IsNotFound(err) == err.type = "object" /\ err.axios /\ err.status = 404

\* variant: the first .catch passes every error on unchanged
LookupCatchReasonUnmapped(err) == err

\* the value the first .catch rejects its promise with
LookupCatchReason(err) ==
    IF IsNotFound(err) THEN StringReason(NotFoundMessage) ELSE err

\* variant: the first .catch returns normally, which fulfils its promise
AfterLookupCatchSwallows(settled) == Fulfilled

\* the promise made by the first .catch, given how the lookup settled
AfterLookupCatch(settled) ==
    IF settled.state = "rejected"
    THEN Rejected(LookupCatchReason(settled.reason))
    ELSE settled

\* coordinates: markerLocation, in the body handed to postUser
PostUserCoordinates(r) == r.markerLocation

\* variant: the success handler reads the username state of the screen
SetValueArgumentCurrent(r, current) == current

\* the username the success handler hands to the authentication context;
\* r is the invocation, current the username state of the screen
SetValueArgument(r, current) == r.username

\* variant: the final .catch itself classifies a 404 response as not-found
FinalCatchMessageByStatus(err) ==
    IF err.type = "string" THEN err.str
    ELSE IF err.status = 404 THEN NotFoundMessage ELSE GenericMessage

\* variant: the final .catch shows the text of the error object
FinalCatchMessageRaw(err) ==
    IF err.type = "string" THEN err.str ELSE "Request failed"

\* typeof err === 'string' ? err : 'Something went wrong. Please try again.'
FinalCatchMessage(err) ==
    IF err.type = "string" THEN err.str ELSE GenericMessage

\* variant: the busy flag is never cleared
OnFinallyKeepsBusy(failed, busy) == [isAuthenticating |-> busy, calls |-> 0]

\* variant: the busy flag is cleared at the end of the success handler only
OnFinallySuccessOnly(failed, busy) ==
    IF failed THEN [isAuthenticating |-> busy, calls |-> 0]
    ELSE [isAuthenticating |-> FALSE, calls |-> 1]

\* .finally(() => setIsAuthenticating(false)): the busy flag it leaves and
\* the number of calls of setIsAuthenticating(false); failed tells whether
\* the final .catch ran, busy is the flag before.
OnFinally(failed, busy) == [isAuthenticating |-> FALSE, calls |-> 1]

FinallyLog(failed, busy) ==
    [k \in 1..OnFinally(failed, busy).calls |-> "setIsAuthenticating(false)"]

\* variant: the map is unlocked at the end of a failed chain too
FailAndFinishUnlocks(i, event, reason) ==
    /\ errorMessage' = FinalCatchMessage(reason)
    /\ isAuthenticating' = OnFinally(TRUE, isAuthenticating).isAuthenticating
    /\ mapLocked' = FALSE
    /\ runs' = [runs EXCEPT ![i] = Released]
    /\ lastEvent' = [event EXCEPT !.text = FinalCatchMessage(reason),
                                  !.log = <<"setErrorMessage">> \o
                                          FinallyLog(TRUE, isAuthenticating)]
    /\ UNCHANGED <<username, markerLocation, currentRegion>>
    /\ UNCHANGED store

\* The chain from a rejection to its end: the two .then are skipped, the
\* final .catch sets the message, the .finally clears the busy flag.
FailAndFinish(i, event, reason) ==
    /\ errorMessage' = FinalCatchMessage(reason)
    /\ isAuthenticating' = OnFinally(TRUE, isAuthenticating).isAuthenticating
    /\ runs' = [runs EXCEPT ![i] = Released]
    /\ lastEvent' = [event EXCEPT !.text = FinalCatchMessage(reason),
                                  !.log = <<"setErrorMessage">> \o
                                          FinallyLog(TRUE, isAuthenticating)]
    /\ UNCHANGED <<username, markerLocation, currentRegion, mapLocked>>
    /\ UNCHANGED store

\* getGitHubUserInfo(username) settles; a fulfilled lookup passes the first
\* .catch and the first .then calls postUser.
getGitHubUserInfoSettles(i, outcome) ==
    /\ Started(i)
    /\ runs[i].pc = "lookup"
    /\ UNCHANGED locationFetch
    /\ LET event == [Event("getGitHubUserInfoSettles") EXCEPT
                        !.run = i, !.outcome = outcome]
           p1 == AfterLookupCatch(outcome)
       IN  IF p1.state = "fulfilled"
           THEN /\ runs' = [runs EXCEPT ![i] = Registering(runs[i])]
                /\ lastEvent' = [event EXCEPT
                                    !.coordinate = PostUserCoordinates(runs[i]),
                                    !.log = <<"postUser">>]
                /\ UNCHANGED screen
                /\ UNCHANGED store
           ELSE FailAndFinish(i, event, p1.reason)

\* authenticationContext?.setValue(username): no call when the context is
\* null
OnRegistered(context, value, calls, argument) ==
    IF context = null
    THEN [authValue |-> value, setValueCalls |-> calls, text |-> "",
          log |-> <<>>]
    ELSE [authValue |-> argument, setValueCalls |-> calls + 1,
          text |-> argument, log |-> <<"setValue">>]

\* postUser(...) settles; when fulfilled the second .then runs
\* authenticationContext?.setValue(username), setMapLocked(false),
\* navigation.replace('Main'), the final .catch is skipped and the .finally
\* clears the busy flag.
postUserSettles(i, outcome) ==
    /\ Started(i)
    /\ runs[i].pc = "register"
    /\ UNCHANGED locationFetch
    /\ LET event == [Event("postUserSettles") EXCEPT
                        !.run = i, !.outcome = outcome]
           committed == OnRegistered(authenticationContext, authValue,
                                     setValueCalls,
                                     SetValueArgument(runs[i], username))
       IN  IF outcome.state = "fulfilled"
           THEN /\ authValue' = committed.authValue
                /\ setValueCalls' = committed.setValueCalls
                /\ UNCHANGED authenticationContext
                /\ mapLocked' = FALSE
                /\ replaceCalls' = replaceCalls + 1
                /\ isAuthenticating' = OnFinally(FALSE, isAuthenticating).isAuthenticating
                /\ runs' = [runs EXCEPT ![i] = Released]
                /\ lastEvent' = [event EXCEPT
                                    !.text = committed.text,
                                    !.log = committed.log \o
                                            <<"setMapLocked(false)", "replace('Main')">> \o
                                            FinallyLog(FALSE, isAuthenticating)]
                /\ UNCHANGED <<username, markerLocation, currentRegion, errorMessage>>
           ELSE FailAndFinish(i, event, outcome.reason)

RunIds == 1..MaxRuns

Next ==
    \/ \E c \in Coordinates : tryGetCurrentPositionResolves(c)
    \/ tryGetCurrentPositionRejects
    \/ \E c \in Coordinates : handleMapPress(c)
    \/ \E t \in Usernames : onChangeText(t)
    \/ handleSignUp
    \/ \E i \in RunIds, o \in ServiceOutcomes : getGitHubUserInfoSettles(i, o)
    \/ \E i \in RunIds, o \in ServiceOutcomes : postUserSettles(i, o)

Spec == Init /\ [][Next]_vars

\* While a remote call is pending, a pending remote call eventually resolves
\* or rejects.  The number of invocations is bounded, so every remote call
\* settles in the end; no order among the pending calls is assumed.
RemoteCallsSettle ==
    WF_vars(\E i \in RunIds, o \in ServiceOutcomes :
                \/ getGitHubUserInfoSettles(i, o)
                \/ postUserSettles(i, o))

FairSpec == Spec /\ RemoteCallsSettle

TypeOK ==
    /\ username \in Usernames
    /\ isAuthenticating \in BOOLEAN
    /\ markerLocation \in Coordinates
    /\ mapLocked \in BOOLEAN
    /\ errorMessage \in {null, NotFoundMessage, GenericMessage}
    /\ locationFetch \in {"pending", "settled"}
    /\ authenticationContext \in ContextValues
    /\ Len(runs) <= MaxRuns

\* ---- properties ----
\* The not-found kind of the lookup client: an AxiosError whose response has
\* status 404.
NotFoundError == ErrorObject(TRUE, 404)

\* run i ends in this step
Resolves(i) == i \in 1..Len(runs) /\ runs[i].pc # "done" /\ runs'[i].pc = "done"

\* the completion of run i's remote call op has just run, with outcome o
Completed(op, i, o) ==
    lastEvent.op = op /\ lastEvent.run = i /\ lastEvent.outcome = o

\* the number of calls of setIsAuthenticating(false) in a log
BusyResets(log) ==
    Len(SelectSeq(log, LAMBDA call : call = "setIsAuthenticating(false)"))

\* An invocation acts only in its own tasks and not after it has ended.
RunsActInOwnTasks ==
    /\ \A i \in 1..Len(runs) :
         /\ runs[i].pc = "done" => runs'[i] = runs[i]
         /\ runs'[i] # runs[i] => lastEvent'.run = i
    /\ (lastEvent'.run # 0 /\ lastEvent' # lastEvent)
         => /\ lastEvent'.run \in 1..Len(runs')
            /\ lastEvent'.run \in 1..Len(runs) => runs[lastEvent'.run].pc # "done"
    /\ lastEvent'.run = 0 => (UNCHANGED store /\ UNCHANGED runs)

\* C1: an invocation whose lookup fails with the not-found kind ends in the
\* task of that failure with errorMessage equal to the not-found message and
\* the busy flag false; the task calls neither postUser nor setValue nor
\* navigation.replace, and the invocation never acts again.
C1_NotFoundEndsWithMessage ==
    [][/\ RunsActInOwnTasks
       /\ \A i \in 1..Len(runs) :
            Completed("getGitHubUserInfoSettles", i, Rejected(NotFoundError))'
            /\ runs[i].pc = "lookup"
            => /\ runs'[i].pc = "done"
               /\ errorMessage' = NotFoundMessage
               /\ isAuthenticating' = FALSE
               /\ lastEvent'.log = <<"setErrorMessage", "setIsAuthenticating(false)">>
               /\ UNCHANGED store
               /\ UNCHANGED mapLocked
       /\ Len(runs') = Len(runs) + 1 => UNCHANGED store]_vars

C1_Witness ==
    \E i \in 1..Len(runs) :
        /\ Completed("getGitHubUserInfoSettles", i, Rejected(NotFoundError))
        /\ runs[i].pc = "done"
        /\ errorMessage = NotFoundMessage
        /\ ~isAuthenticating
        /\ replaceCalls = 0 /\ setValueCalls = 0

\* C2: an invocation whose lookup fails with any other error, or whose
\* lookup succeeds and whose registration fails with any error, ends with
\* errorMessage equal to the generic message and the busy flag false.
C2_OtherFailuresEndGeneric ==
    [][\A i \in 1..Len(runs), e \in ErrorObjects :
          \/ /\ Completed("getGitHubUserInfoSettles", i, Rejected(e))'
             /\ runs[i].pc = "lookup"
             /\ e # NotFoundError
          \/ /\ Completed("postUserSettles", i, Rejected(e))'
             /\ runs[i].pc = "register"
          => /\ runs'[i].pc = "done"
             /\ errorMessage' = GenericMessage
             /\ isAuthenticating' = FALSE]_vars

\* a registration that failed with a 404 response
C2_Witness ==
    \E i \in 1..Len(runs) :
        /\ Completed("postUserSettles", i, Rejected(NotFoundError))
        /\ runs[i].pc = "done"
        /\ errorMessage = GenericMessage
        /\ ~isAuthenticating

\* C3: the closure of an invocation holds the username of the moment
\* handleSignUp was called and keeps it while the username is edited; when
\* lookup and registration both succeed, mapLocked becomes false, the value
\* handed to the authentication context is that username (the one commit
\* of the invocation; without an authentication context nothing is
\* committed), and the invocation calls navigation.replace('Main') exactly
\* once.
C3_SuccessCommitsSubmittedUsername ==
    [][/\ RunsActInOwnTasks
       /\ Len(runs') = Len(runs) + 1 => runs'[Len(runs')].username = username
       /\ \A i \in 1..Len(runs) :
            /\ runs'[i].pc # "done" => runs'[i].username = runs[i].username
            /\ (Completed("postUserSettles", i, Fulfilled)' /\ runs[i].pc = "register")
               => /\ runs'[i].pc = "done"
                  /\ mapLocked' = FALSE
                  /\ authenticationContext # null
                     => /\ authValue' = runs[i].username
                        /\ lastEvent'.text = runs[i].username
                        /\ setValueCalls' = setValueCalls + 1
                  /\ authenticationContext = null
                     => UNCHANGED <<authValue, setValueCalls>>
                  /\ replaceCalls' = replaceCalls + 1
            /\ (lastEvent'.run = i /\ lastEvent' # lastEvent
                /\ ~Completed("postUserSettles", i, Fulfilled)')
               => UNCHANGED store]_vars

\* a success whose committed username differs from the edited username text
C3_Witness ==
    \E i \in 1..Len(runs) :
        /\ Completed("postUserSettles", i, Fulfilled)
        /\ runs[i].pc = "done"
        /\ authenticationContext = ProvidedContext
        /\ authValue = "octocat"
        /\ setValueCalls = 1
        /\ username = ""
        /\ ~mapLocked
        /\ replaceCalls = 1

\* C4: at the resolution of an invocation that triggered navigation,
\* errorMessage is unset.
C4_NavigationExcludesError ==
    (lastEvent.op = "postUserSettles" /\ lastEvent.outcome = Fulfilled)
    => errorMessage = null

\* C5: the busy flag is true in every state in which some invocation has
\* started and not yet resolved.
C5_BusyWhileInFlight ==
    \A i \in 1..Len(runs) : runs[i].pc # "done" => isAuthenticating

\* C6: the busy flag is true only while some invocation has started and not
\* yet resolved.
C6_BusyOnlyInFlight ==
    isAuthenticating => \E i \in 1..Len(runs) : runs[i].pc # "done"

\* busy during a second run, after a first run has resolved
C6_Witness ==
    /\ isAuthenticating
    /\ Len(runs) = 2
    /\ runs[1].pc = "done"
    /\ runs[2].pc = "register"

\* C7: every invocation eventually resolves: again and again no invocation
\* is in flight; the task in which an invocation resolves calls
\* setIsAuthenticating(false) exactly once and no other task of it does;
\* while an invocation that failed has just resolved, handleSignUp can be
\* called again.
C7_EveryRunResolves ==
    /\ []<>(\A i \in 1..Len(runs) : runs[i].pc = "done")
    /\ [](lastEvent.run # 0
          => BusyResets(lastEvent.log) =
                 (IF runs[lastEvent.run].pc = "done" THEN 1 ELSE 0))
    /\ []((lastEvent.outcome.state = "rejected" /\ Len(runs) < MaxRuns)
          => ENABLED handleSignUp)

\* a run that failed and resolved, then a run started later that succeeded:
\* the first run has not navigated, its message is still shown
C7_Witness ==
    /\ Len(runs) = 2
    /\ runs[1].pc = "done"
    /\ Completed("postUserSettles", 2, Fulfilled)
    /\ runs[2].pc = "done"
    /\ replaceCalls = 1
    /\ errorMessage # null
    /\ BusyResets(lastEvent.log) = 1
    /\ ~isAuthenticating

\* C8: immediately after handleSignUp is called, errorMessage is unset.
C8_SignUpClearsError ==
    lastEvent.op = "handleSignUp" => errorMessage = null

\* C9: a text change to t leaves username = t and errorMessage unset and
\* does not change the busy flag, the marker, the region or the map lock.
C9_ChangeTextEffect ==
    [][lastEvent'.op = "onChangeText"
       => /\ username' = lastEvent'.text
          /\ errorMessage' = null
          /\ UNCHANGED <<isAuthenticating, markerLocation, currentRegion,
                         mapLocked>>]_vars

\* an edit while one run has resolved and another is in flight
C9_Witness ==
    /\ lastEvent.op = "onChangeText"
    /\ lastEvent.text = "octocat"
    /\ username = "octocat"
    /\ errorMessage = null
    /\ isAuthenticating
    /\ \E i \in 1..Len(runs) : runs[i].pc = "done"
    /\ \E i \in 1..Len(runs) : runs[i].pc = "lookup"

\* C10: the authentication context is set at most once and
\* navigation.replace('Main') is called at most once.
C10_SessionWrittenOnce ==
    setValueCalls <= 1 /\ replaceCalls <= 1

\* the task that has just run is a task of an invocation
RunTask == lastEvent' # lastEvent /\ lastEvent'.run \in 1..Len(runs')

\* the task that has just run is the failure of a remote call of run i
FailedIn(i) ==
    /\ lastEvent'.run = i
    /\ lastEvent' # lastEvent
    /\ lastEvent'.op \in {"getGitHubUserInfoSettles", "postUserSettles"}
    /\ lastEvent'.outcome.state = "rejected"

\* the calls of the success handler
SuccessCalls == {"setValue", "setMapLocked(false)", "replace('Main')"}

\* C11: the task in which an invocation fails leaves the authentication
\* context, navigation and mapLocked alone; the authentication context, the
\* navigation and mapLocked change only in the task in which the
\* registration call of an invocation has succeeded, and that task calls
\* setValue (when there is an authentication context), setMapLocked(false),
\* navigation.replace('Main') in this order.
C11_CommitOnlyAfterRegistration ==
    [][/\ \A i \in 1..Len(runs) :
            FailedIn(i) => /\ runs'[i].pc = "done"
                           /\ UNCHANGED store
                           /\ UNCHANGED mapLocked
       /\ (store' # store \/ mapLocked' # mapLocked)
          => /\ lastEvent'.op = "postUserSettles"
             /\ lastEvent'.outcome = Fulfilled
             /\ lastEvent'.run \in 1..Len(runs)
             /\ runs[lastEvent'.run].pc = "register"
             /\ SelectSeq(lastEvent'.log, LAMBDA call : call \in SuccessCalls) =
                    IF authenticationContext = null
                    THEN <<"setMapLocked(false)", "replace('Main')">>
                    ELSE <<"setValue", "setMapLocked(false)", "replace('Main')">>
             /\ authValue' # authValue
                => /\ lastEvent'.log[1] = "setValue"
                   /\ authValue' = lastEvent'.text
             /\ setValueCalls' \in {setValueCalls, setValueCalls + 1}
             /\ replaceCalls' = replaceCalls + 1
             /\ mapLocked' = FALSE]_vars

\* a registration failure that left the map locked and nothing committed
C11_Witness ==
    /\ lastEvent.op = "postUserSettles"
    /\ lastEvent.outcome.state = "rejected"
    /\ runs[lastEvent.run].pc = "done"
    /\ mapLocked
    /\ authValue = null
    /\ setValueCalls = 0 /\ replaceCalls = 0
    /\ errorMessage = GenericMessage

\* C12: a press at coordinate c leaves markerLocation = c and changes
\* neither username, the busy flag, errorMessage, the region, mapLocked,
\* the invocations in flight nor the authentication context.
C12_MapPressEffect ==
    [][lastEvent'.op = "handleMapPress"
       => /\ markerLocation' = lastEvent'.coordinate
          /\ UNCHANGED <<username, isAuthenticating, errorMessage,
                         currentRegion, mapLocked, runs>>
          /\ UNCHANGED store]_vars

\* a press away from the region centre, with an error shown and a run in
\* flight
C12_Witness ==
    /\ lastEvent.op = "handleMapPress"
    /\ lastEvent.coordinate = ElsewhereLocation
    /\ markerLocation = ElsewhereLocation
    /\ currentRegion = InitialRegion
    /\ errorMessage # null
    /\ isAuthenticating
    /\ \E i \in 1..Len(runs) : runs[i].pc = "lookup"

\* C13: the coordinates handed to postUser are the markerLocation of the
\* moment postUser is called.
C13_PostUserGetsCurrentMarker ==
    (lastEvent.op = "getGitHubUserInfoSettles" /\ lastEvent.log = <<"postUser">>)
    => lastEvent.coordinate = markerLocation

\* C14: postUser is called only in the task in which the lookup of the same
\* invocation has succeeded, once, and an invocation never waits for a
\* lookup again; the task in which a lookup fails ends the invocation
\* without calling postUser.
C14_RegistrationOnlyAfterLookup ==
    [][/\ \A i \in 1..Len(runs) :
            /\ runs[i].pc # "lookup" => runs'[i].pc # "lookup"
            /\ (runs[i].pc # "register" /\ runs'[i].pc = "register")
               => /\ runs[i].pc = "lookup"
                  /\ lastEvent'.op = "getGitHubUserInfoSettles"
                  /\ lastEvent'.run = i
                  /\ lastEvent'.outcome = Fulfilled
                  /\ lastEvent'.log = <<"postUser">>
            /\ (FailedIn(i) /\ lastEvent'.op = "getGitHubUserInfoSettles")
               => /\ runs'[i].pc = "done"
                  /\ lastEvent'.log =
                         <<"setErrorMessage", "setIsAuthenticating(false)">>
       /\ (RunTask /\ \E k \in DOMAIN lastEvent'.log : lastEvent'.log[k] = "postUser")
          => /\ lastEvent'.op = "getGitHubUserInfoSettles"
             /\ lastEvent'.outcome = Fulfilled
             /\ lastEvent'.run \in 1..Len(runs)
             /\ runs[lastEvent'.run].pc = "lookup"
             /\ runs'[lastEvent'.run].pc = "register"]_vars

\* one run waits for its registration, another has failed its lookup with
\* an error other than not-found and has ended
C14_Witness ==
    /\ Len(runs) = 2
    /\ runs[1].pc = "register"
    /\ runs[2].pc = "done"
    /\ Completed("getGitHubUserInfoSettles", 2, Rejected(ErrorObject(TRUE, 500)))
    /\ errorMessage = GenericMessage

\* C15: the failure of the location fetch changes neither errorMessage, the
\* busy flag, the marker, the region nor anything else of the screen, and
\* markerLocation is a coordinate (never unset) in every state.
C15_LocationFailureIgnored ==
    /\ [](markerLocation \in Coordinates)
    /\ [][lastEvent'.op = "tryGetCurrentPositionRejects"
          => /\ UNCHANGED screen
             /\ UNCHANGED runs
             /\ UNCHANGED store]_vars

\* the fetch failed after a map press: the pressed marker and the default
\* region are kept, no error is shown
C15_Witness ==
    /\ lastEvent.op = "tryGetCurrentPositionRejects"
    /\ locationFetch = "settled"
    /\ markerLocation = ElsewhereLocation
    /\ currentRegion = InitialRegion
    /\ errorMessage = null
    /\ ~isAuthenticating

\* C16: when the location fetch resolves with position p, markerLocation is
\* p, the region is centred on p and keeps its initial deltas, whatever the
\* marker was before.
C16_LocationResolveOverwrites ==
    [][lastEvent'.op = "tryGetCurrentPositionResolves"
       => /\ markerLocation' = lastEvent'.coordinate
          /\ currentRegion'.latitude = lastEvent'.coordinate.latitude
          /\ currentRegion'.longitude = lastEvent'.coordinate.longitude
          /\ currentRegion'.latitudeDelta = InitialDelta
          /\ currentRegion'.longitudeDelta = InitialDelta
          /\ currentRegion'.latitudeDelta = currentRegion.latitudeDelta
          /\ currentRegion'.longitudeDelta = currentRegion.longitudeDelta
          /\ UNCHANGED <<username, isAuthenticating, errorMessage, mapLocked, runs>>
          /\ UNCHANGED store]_vars

\* the fetch resolved with a position away from the default
C16_Witness ==
    /\ lastEvent.op = "tryGetCurrentPositionResolves"
    /\ lastEvent.coordinate = ElsewhereLocation
    /\ markerLocation = ElsewhereLocation
    /\ currentRegion.latitude = ElsewhereLocation.latitude
    /\ currentRegion.longitude = ElsewhereLocation.longitude
    /\ currentRegion.latitudeDelta = InitialDelta
    /\ currentRegion.longitudeDelta = InitialDelta

\* C17: errorMessage is unset, the not-found message or the generic
\* message; it changes from unset to set only in the task in which a remote
\* call of an invocation in flight fails, and every such task sets it.
C17_ErrorOnlyOnFailure ==
    /\ [](errorMessage \in {null, NotFoundMessage, GenericMessage})
    /\ [][/\ (errorMessage = null /\ errorMessage' # null)
             => \E i \in 1..Len(runs) : FailedIn(i) /\ Resolves(i)
          /\ \A i \in 1..Len(runs) :
               (FailedIn(i) /\ Resolves(i)) => errorMessage' # null]_vars

\* the second run failed with the username edited since the first run ended
C17_Witness ==
    /\ Len(runs) = 2
    /\ runs[1].pc = "done" /\ runs[2].pc = "done"
    /\ lastEvent.run = 2
    /\ lastEvent.outcome.state = "rejected"
    /\ errorMessage = NotFoundMessage
    /\ username = "octocat"
    /\ replaceCalls = 0
====
